---- MODULE Spec2Model ----
(***************************************************************************)
(* Model of the policy-retrieval and return-eligibility core of the        *)
(* eCommerce customer service agent:                                       *)
(*   - ReturnEligibilityCalculator._run   (src/src/tools/calculator_tool.py)*)
(*   - PolicyRetriever / RAGSearchTool    (src/src/rag/retrieval.py,       *)
(*                                         src/src/tools/rag_tool.py)      *)
(*   - text splitter, summarizer         (src/src/rag/ingestion.py,       *)
(*                                         src/src/tools/summarizer_tool.py)*)
(*   - ingestion, start-up, session       (src/src/rag/ingestion.py,       *)
(*                                         src/main.py)                    *)
(* Strings are sequences of one-character strings, so that parsing,       *)
(* lower-casing and formatting are computed rather than assumed.           *)
(***************************************************************************)
EXTENDS Integers, Sequences, FiniteSets, TLC

VARIABLES now, calc, storeUp, collection, topK, call,
          split, summary, dataDir, persisted, env, run, proc,
          session, threads

vars == <<now, calc, storeUp, collection, topK, call,
          split, summary, dataDir, persisted, env, run, proc,
          session, threads>>

calcVars == <<now, calc>>

retrVars == <<storeUp, collection, topK, call>>

\* the text splitter and the summarizer
textVars == <<split, summary>>

\* the document directory, the persisted store, the environment settings,
\* the last ingestion run and the process
ingVars == <<dataDir, persisted, env, run, proc>>

\* the interactive session and the callers that use one retriever at the
\* same time
liveVars == <<session, threads>>

\* what each component leaves alone
calcOthers == <<retrVars, textVars, ingVars, liveVars>>

retrOthers == <<calcVars, textVars, ingVars, liveVars>>

textOthers == <<calcVars, retrVars, ingVars, liveVars>>

ingOthers == <<calcVars, retrVars, textVars, liveVars>>

sessionOthers == <<calcVars, retrVars, textVars, ingVars, threads>>

threadsOthers == <<calcVars, call, textVars, ingVars, session>>

(***************************************************************************)
(* Text helpers                                                            *)
(***************************************************************************)

Digits == {"0", "1", "2", "3", "4", "5", "6", "7", "8", "9"}

DigitVal(c) ==
    CASE c = "0" -> 0 [] c = "1" -> 1 [] c = "2" -> 2 [] c = "3" -> 3
      [] c = "4" -> 4 [] c = "5" -> 5 [] c = "6" -> 6 [] c = "7" -> 7
      [] c = "8" -> 8 [] c = "9" -> 9

DigitChar(n) ==
    CASE n = 0 -> "0" [] n = 1 -> "1" [] n = 2 -> "2" [] n = 3 -> "3"
      [] n = 4 -> "4" [] n = 5 -> "5" [] n = 6 -> "6" [] n = 7 -> "7"
      [] n = 8 -> "8" [] n = 9 -> "9"

\* str.lower() on one character (ASCII letters)
LowerChar(c) ==
    CASE c = "A" -> "a" [] c = "B" -> "b" [] c = "C" -> "c" [] c = "D" -> "d"
      [] c = "E" -> "e" [] c = "F" -> "f" [] c = "G" -> "g" [] c = "H" -> "h"
      [] c = "I" -> "i" [] c = "J" -> "j" [] c = "K" -> "k" [] c = "L" -> "l"
      [] c = "M" -> "m" [] c = "N" -> "n" [] c = "O" -> "o" [] c = "P" -> "p"
      [] c = "Q" -> "q" [] c = "R" -> "r" [] c = "S" -> "s" [] c = "T" -> "t"
      [] c = "U" -> "u" [] c = "V" -> "v" [] c = "W" -> "w" [] c = "X" -> "x"
      [] c = "Y" -> "y" [] c = "Z" -> "z" [] OTHER -> c

\* str.lower()
Lower(s) == [i \in 1..Len(s) |-> LowerChar(s[i])]

\* s[i:] (1-based i)
Tail_from(s, i) == SubSeq(s, i, Len(s))

(***************************************************************************)
(* Proleptic Gregorian calendar of datetime                                *)
(***************************************************************************)

MINYEAR == 1

MAXYEAR == 9999

IsLeap(y) == (y % 4 = 0) /\ ((y % 100 # 0) \/ (y % 400 = 0))

DaysInMonth(y, m) ==
    CASE m \in {1, 3, 5, 7, 8, 10, 12} -> 31
      [] m \in {4, 6, 9, 11} -> 30
      [] m = 2 -> IF IsLeap(y) THEN 29 ELSE 28

DaysBeforeYear(y) ==
    LET p == y - 1 IN p * 365 + (p \div 4) - (p \div 100) + (p \div 400)

RECURSIVE DaysBeforeMonth(_, _)
DaysBeforeMonth(y, m) ==
    IF m = 1 THEN 0 ELSE DaysBeforeMonth(y, m - 1) + DaysInMonth(y, m - 1)

\* date.toordinal(): 0001-01-01 is day 1
Ymd2ord(y, m, d) == DaysBeforeYear(y) + DaysBeforeMonth(y, m) + d

MaxOrdinal == Ymd2ord(MAXYEAR, 12, 31)

RECURSIVE MonthOfDayInYear(_, _, _)
MonthOfDayInYear(y, n, m) ==
    IF n <= DaysInMonth(y, m) THEN <<m, n>>
    ELSE MonthOfDayInYear(y, n - DaysInMonth(y, m), m + 1)

\* date.fromordinal(): inverse of Ymd2ord, by the 400/100/4/1-year cycles
Ord2ymd(ord) ==
    LET n0   == ord - 1
        n400 == n0 \div 146097
        r400 == n0 % 146097
        n100 == r400 \div 36524
        r100 == r400 % 36524
        n4   == r100 \div 1461
        r4   == r100 % 1461
        n1   == r4 \div 365
        r1   == r4 % 365
        year == n400 * 400 + n100 * 100 + n4 * 4 + n1 + 1
    IN  IF n1 = 4 \/ n100 = 4
        THEN [y |-> year - 1, m |-> 12, d |-> 31]
        ELSE LET md == MonthOfDayInYear(year, r1 + 1, 1)
             IN  [y |-> year, m |-> md[1], d |-> md[2]]

\* n formatted in exactly w decimal digits, zero padded
RECURSIVE Pad(_, _)
Pad(n, w) ==
    IF w = 0 THEN <<>> ELSE Append(Pad(n \div 10, w - 1), DigitChar(n % 10))

\* strftime('%Y-%m-%d')
Strftime(ord) ==
    LET t == Ord2ymd(ord)
    IN  Pad(t.y, 4) \o <<"-">> \o Pad(t.m, 2) \o <<"-">> \o Pad(t.d, 2)

(***************************************************************************)
(* datetime.strptime(s, "%Y-%m-%d")                                        *)
(***************************************************************************)

At(s, i) == IF i >= 1 /\ i <= Len(s) THEN s[i] ELSE "<end>"

\* %m : 1[0-2] | 0[1-9] | [1-9]   -- number of characters matched, 0 if none
MonthMatchLen(s, i) ==
    IF At(s, i) = "1" /\ At(s, i + 1) \in {"0", "1", "2"} /\ At(s, i + 2) = "-" THEN 2
    ELSE IF At(s, i) = "0" /\ At(s, i + 1) \in (Digits \ {"0"}) /\ At(s, i + 2) = "-" THEN 2
    ELSE IF At(s, i) \in (Digits \ {"0"}) /\ At(s, i + 1) = "-" THEN 1
    ELSE 0

\* %d : 3[0-1] | [1-2]\d | 0[1-9] | [1-9] | " "[1-9]
DayMatchLen(s, i) ==
    IF At(s, i) = "3" /\ At(s, i + 1) \in {"0", "1"} THEN 2
    ELSE IF At(s, i) \in {"1", "2"} /\ At(s, i + 1) \in Digits THEN 2
    ELSE IF At(s, i) = "0" /\ At(s, i + 1) \in (Digits \ {"0"}) THEN 2
    ELSE IF At(s, i) \in (Digits \ {"0"}) THEN 1
    ELSE IF At(s, i) = " " /\ At(s, i + 1) \in (Digits \ {"0"}) THEN 2
    ELSE 0

\* value of the digits of s[i .. i+n-1], a leading blank counting as nothing
RECURSIVE NumVal(_, _, _)
NumVal(s, i, n) ==
    IF n = 0 THEN 0
    ELSE NumVal(s, i, n - 1) * 10
         + (IF s[i + n - 1] \in Digits THEN DigitVal(s[i + n - 1]) ELSE 0)

ParseFail(why, data) ==
    [ok |-> FALSE, ord |-> 0, why |-> why, data |-> data]

\* The parsed date (as an ordinal) or the ValueError strptime raises:
\*   "nomatch"     time data '<s>' does not match format '%Y-%m-%d'
\*   "unconverted" unconverted data remains: <rest>
\*   "yearrange"   year 0 is out of range
\*   "dayrange"    day is out of range for month
Strptime(s) ==
    LET yearOk == \A i \in 1..4 : At(s, i) \in Digits
        ml     == MonthMatchLen(s, 6)
        dpos   == 6 + ml + 1
        dl     == DayMatchLen(s, dpos)
    IN  IF ~(yearOk /\ At(s, 5) = "-" /\ ml > 0 /\ dl > 0)
        THEN ParseFail("nomatch", s)
        ELSE IF dpos + dl <= Len(s)
        THEN ParseFail("unconverted", Tail_from(s, dpos + dl))
        ELSE LET y == NumVal(s, 1, 4)
                 m == NumVal(s, 6, ml)
                 d == NumVal(s, dpos, dl)
             IN  IF y < MINYEAR THEN ParseFail("yearrange", <<>>)
                 ELSE IF d > DaysInMonth(y, m) THEN ParseFail("dayrange", <<>>)
                 ELSE [ok |-> TRUE, ord |-> Ymd2ord(y, m, d),
                       why |-> "", data |-> <<>>]

(***************************************************************************)
(* ReturnEligibilityCalculator                                             *)
(***************************************************************************)

\* Granularity of the clock: instants per calendar day.  A datetime is the
\* integer  ordinal * TicksPerDay + tick ; a parsed date has tick 0.
TicksPerDay == 2

Midnight(ord) == ord * TicksPerDay

\* timedelta.days : whole days, rounded towards minus infinity
TimedeltaDays(delta) == delta \div TicksPerDay

general == <<"g", "e", "n", "e", "r", "a", "l">>

electronics == <<"e", "l", "e", "c", "t", "r", "o", "n", "i", "c", "s">>

clothing == <<"c", "l", "o", "t", "h", "i", "n", "g">>

food == <<"f", "o", "o", "d">>

perishables == <<"p", "e", "r", "i", "s", "h", "a", "b", "l", "e", "s">>

\* RETURN_WINDOWS.get(key, default)
RETURN_WINDOWS_get(key, default) ==
    CASE key = general     -> 30
      [] key = electronics -> 15
      [] key = clothing    -> 60
      [] key = food        -> 7
      [] key = perishables -> 7
      [] OTHER             -> default

\* the lookup without lower(): category names matched case-sensitively
ReturnWindowDays_CaseSensitive(product_category) ==
    RETURN_WINDOWS_get(product_category, RETURN_WINDOWS_get(general, 0))

\* category_normalized = product_category.lower(); the window of the
\* category, or the window of "general"
ReturnWindowDays(product_category) ==
    RETURN_WINDOWS_get(Lower(product_category), RETURN_WINDOWS_get(general, 0))

NoResult ==
    [kind |-> "none", eligible |-> FALSE, purchase |-> <<>>, category |-> <<>>,
     window |-> 0, daysSince |-> 0, figure |-> 0, deadline |-> <<>>,
     why |-> "", data |-> <<>>]

\* "Invalid date format. Please use YYYY-MM-DD format. Error: <str(e)>"
InvalidDateResult(p) ==
    [NoResult EXCEPT !.kind = "InvalidDate", !.why = p.why, !.data = p.data]

\* "Error calculating return eligibility: <str(e)>"
OtherErrorResult(why) ==
    [NoResult EXCEPT !.kind = "Error", !.why = why]

\* An omitted argument (None) or the text given
None == [given |-> FALSE, text |-> <<>>]

Given(s) == [given |-> TRUE, text |-> s]

\* "if current_date:" -- None and the empty string are both falsy
Truthy(current_date) == current_date.given /\ current_date.text # <<>>

\* the deadline day itself already counted as too late
IsEligible_Strict(current_dt, deadline_date) == current_dt < deadline_date

\* one day of grace after the deadline
IsEligible_Late(current_dt, deadline_date) ==
    current_dt <= deadline_date + TicksPerDay

\* current_dt <= deadline_date
IsEligible(current_dt, deadline_date) == current_dt <= deadline_date

\* _run(purchase_date, product_category, current_date) with the clock at nowT
Run(purchase_date, product_category, current_date, nowT) ==
    LET p == Strptime(purchase_date)
        c == IF Truthy(current_date) THEN Strptime(current_date.text)
             ELSE [ok |-> TRUE, ord |-> 0, why |-> "", data |-> <<>>]
    IN  IF ~p.ok THEN InvalidDateResult(p)
        ELSE IF ~c.ok THEN InvalidDateResult(c)
        ELSE
        LET purchase_dt == Midnight(p.ord)
            current_dt  == IF Truthy(current_date) THEN Midnight(c.ord) ELSE nowT
            return_window_days  == ReturnWindowDays(product_category)
            days_since_purchase == TimedeltaDays(current_dt - purchase_dt)
            deadline_ord        == p.ord + return_window_days
            deadline_date       == Midnight(deadline_ord)
            is_eligible         == IsEligible(current_dt, deadline_date)
        IN  IF deadline_ord > MaxOrdinal
            THEN OtherErrorResult("date value out of range")
            ELSE [kind      |-> "verdict",
                  eligible  |-> is_eligible,
                  purchase  |-> purchase_date,
                  category  |-> product_category,
                  window    |-> return_window_days,
                  daysSince |-> days_since_purchase,
                  figure    |-> IF is_eligible
                                THEN TimedeltaDays(deadline_date - current_dt)
                                ELSE days_since_purchase - return_window_days,
                  deadline  |-> Strftime(deadline_ord),
                  why       |-> "",
                  data      |-> <<>>]


\* ---- inputs of the calculator ----

D_2024_01_01 == <<"2", "0", "2", "4", "-", "0", "1", "-", "0", "1">>

D_2024_1_1 == <<"2", "0", "2", "4", "-", "1", "-", "1">>

D_2024_03_05 == <<"2", "0", "2", "4", "-", "0", "3", "-", "0", "5">>

D_9999_12_20 == <<"9", "9", "9", "9", "-", "1", "2", "-", "2", "0">>

D_9999_12_25 == <<"9", "9", "9", "9", "-", "1", "2", "-", "2", "5">>

D_2024_02_30 == <<"2", "0", "2", "4", "-", "0", "2", "-", "3", "0">>

D_not_a_date == <<"n", "o", "t", "-", "a", "-", "d", "a", "t", "e">>

D_2024_01_01x == <<"2", "0", "2", "4", "-", "0", "1", "-", "0", "1", "x">>

D_2024_01_10 == <<"2", "0", "2", "4", "-", "0", "1", "-", "1", "0">>

D_2024_01_16 == <<"2", "0", "2", "4", "-", "0", "1", "-", "1", "6">>

D_2024_01_17 == <<"2", "0", "2", "4", "-", "0", "1", "-", "1", "7">>

D_2024_01_20 == <<"2", "0", "2", "4", "-", "0", "1", "-", "2", "0">>

D_2024_01_31 == <<"2", "0", "2", "4", "-", "0", "1", "-", "3", "1">>

D_2024_02_01 == <<"2", "0", "2", "4", "-", "0", "2", "-", "0", "1">>

D_2024_03_01 == <<"2", "0", "2", "4", "-", "0", "3", "-", "0", "1">>

D_2024_03_02 == <<"2", "0", "2", "4", "-", "0", "3", "-", "0", "2">>

D_2030_01_01 == <<"2", "0", "3", "0", "-", "0", "1", "-", "0", "1">>

C_Electronics == <<"E", "l", "e", "c", "t", "r", "o", "n", "i", "c", "s">>

C_CLOTHING == <<"C", "L", "O", "T", "H", "I", "N", "G">>

C_Food == <<"F", "o", "o", "d">>

C_PERISHABLES == <<"P", "E", "R", "I", "S", "H", "A", "B", "L", "E", "S">>

C_unknown_category ==
    <<"u", "n", "k", "n", "o", "w", "n", "_", "c", "a", "t", "e", "g", "o", "r", "y">>

C_food_blank == <<"f", "o", "o", "d", " ">>

ValidPurchaseInputs == {D_2024_01_01, D_2024_1_1, D_2024_03_05, D_9999_12_20}

MalformedInputs == {D_2024_02_30, D_not_a_date, D_2024_01_01x}

PurchaseInputs == ValidPurchaseInputs \cup MalformedInputs

ValidReferenceInputs ==
    {D_2024_01_10, D_2024_01_16, D_2024_01_17, D_2024_01_20, D_2024_01_31,
     D_2024_02_01, D_2024_03_01, D_2024_03_02, D_2030_01_01, D_9999_12_25}

ReferenceInputs ==
    {None, Given(<<>>)} \cup {Given(d) : d \in ValidReferenceInputs \cup MalformedInputs}

CategoryInputs ==
    {general, electronics, clothing, food, perishables,
     C_Electronics, C_CLOTHING, C_Food, C_PERISHABLES,
     C_unknown_category, C_food_blank, <<>>}

\* The calendar days on which the clock is read, each at every tick of the day
ClockDays ==
    {Strptime(d).ord : d \in {D_2024_01_10, D_2024_01_16, D_2024_01_31,
                               D_2024_03_01, D_2024_03_02, D_2030_01_01}}

ClockInstants ==
    {Midnight(d) + t : d \in ClockDays, t \in 0..(TicksPerDay - 1)}

\* date.today() of an instant, as the text of that calendar date
TodayText(nowT) == Strftime(nowT \div TicksPerDay)

NoCall ==
    [purchase |-> <<>>, category |-> <<>>, current |-> None, at |-> 0,
     result |-> NoResult]

CalcInit ==
    /\ now \in ClockInstants
    /\ calc = NoCall

\* The wall clock moves forward between two calls
Tick ==
    /\ calc = NoCall
    /\ \E t \in ClockInstants : t > now /\ now' = t
    /\ UNCHANGED <<calc, calcOthers>>

\* One call of ReturnEligibilityCalculator._run; calls do not overlap
Evaluate ==
    /\ calc = NoCall
    /\ \E p \in PurchaseInputs, c \in CategoryInputs, r \in ReferenceInputs :
          calc' = [purchase |-> p, category |-> c, current |-> r, at |-> now,
                   result |-> Run(p, c, r, now)]
    /\ UNCHANGED <<now, calcOthers>>

\* The returned text is handed to the agent; the tool keeps nothing of it
Forget ==
    /\ calc # NoCall
    /\ calc' = NoCall
    /\ UNCHANGED <<now, calcOthers>>

CalcNext == Tick \/ Evaluate \/ Forget

(***************************************************************************)
(* Vector store (Chroma collection) as the retriever sees it               *)
(***************************************************************************)

MaxRecords == 3

MaxEmb == 3

MaxQuery == 2

MaxK == 4

\* A stored record is identified by its position in the collection; its
\* content is summarised by the position of its embedding on a line.
Collections ==
    UNION {[1..n -> 1..MaxEmb] : n \in 0..MaxRecords}

Queries == 1..MaxQuery

KValues == (-1)..MaxK

\* Optional[int] arguments: None or an integer
KInputs == {[given |-> FALSE, val |-> 0]} \cup {[given |-> TRUE, val |-> v] : v \in KValues}

\* distance between the embedding of the query and that of a record
Dist(q, e) == IF q >= e THEN q - e ELSE e - q

\* the n nearest of the records with index in rem, nearest first
RECURSIVE Nearest(_, _, _, _)
Nearest(q, coll, rem, n) ==
    IF n <= 0 \/ rem = {} THEN <<>>
    ELSE LET best == CHOOSE i \in rem : \A j \in rem :
                         \/ Dist(q, coll[i]) < Dist(q, coll[j])
                         \/ Dist(q, coll[i]) = Dist(q, coll[j]) /\ i <= j
         IN  <<[id |-> best, content |-> coll[best], score |-> Dist(q, coll[best])]>>
             \o Nearest(q, coll, rem \ {best}, n - 1)

\* vectorstore.similarity_search_with_score(query, k): raises when the store
\* or the embedding service is unreachable and when k is not positive,
\* otherwise the (at most k) nearest records with their distances
similarity_search_with_score(up, coll, q, k) ==
    IF ~up \/ k <= 0
    THEN [ok |-> FALSE, rows |-> <<>>, asked |-> <<k>>]
    ELSE [ok |-> TRUE, rows |-> Nearest(q, coll, DOMAIN coll, k), asked |-> <<k>>]

\* vectorstore.similarity_search(query, k): the same rows without the score
similarity_search(up, coll, q, k) ==
    LET r == similarity_search_with_score(up, coll, q, k)
    IN  [ok |-> r.ok, asked |-> r.asked,
         rows |-> [i \in 1..Len(r.rows) |->
                     [id |-> r.rows[i].id, content |-> r.rows[i].content, score |-> 0]]]

(***************************************************************************)
(* PolicyRetriever                                                         *)
(***************************************************************************)

\* the per-call k ignored
NumResults_Configured(k, top_k) == top_k

\* num_results = k if k is not None else self.top_k
NumResults(k, top_k) == IF k.given THEN k.val ELSE top_k

\* the store's exception let through to the caller
Recover_Reraise(r) ==
    IF r.ok THEN [raised |-> FALSE, rows |-> r.rows, asked |-> r.asked]
    ELSE [raised |-> TRUE, rows |-> <<>>, asked |-> r.asked]

\* try: return <store rows>  except Exception: return []
Recover(r) ==
    IF r.ok THEN [raised |-> FALSE, rows |-> r.rows, asked |-> r.asked]
    ELSE [raised |-> FALSE, rows |-> <<>>, asked |-> r.asked]

\* PolicyRetriever.retrieve(query, k)
retrieve(up, coll, top_k, q, k) ==
    Recover(similarity_search(up, coll, q, NumResults(k, top_k)))

\* PolicyRetriever.retrieve_with_scores(query, k)
retrieve_with_scores(up, coll, top_k, q, k) ==
    Recover(similarity_search_with_score(up, coll, q, NumResults(k, top_k)))

\* PolicyRetriever.get_collection_stats(): {"document_count": n} or {}
get_collection_stats(up, coll) ==
    IF up THEN <<Len(coll)>> ELSE <<>>

\* num_results: int = 3
DefaultNumResults == 3

\* What the agent passes for num_results: nothing, None or an integer
RagArgs ==
    {[omitted |-> TRUE, k |-> [given |-> FALSE, val |-> 0]]}
        \cup {[omitted |-> FALSE, k |-> k] : k \in KInputs}

\* the tool asks the retriever without a k of its own
ToolK_Unset(arg) == [given |-> FALSE, val |-> 0]

\* def _run(self, query: str, num_results: int = 3): the k handed to
\* retrieve_with_scores
ToolK(arg) ==
    IF arg.omitted THEN [given |-> TRUE, val |-> DefaultNumResults] ELSE arg.k

\* RAGSearchTool._run(query, num_results): the text handed to the agent
RagRun(up, coll, top_k, q, num_results) ==
    LET results == retrieve_with_scores(up, coll, top_k, q, num_results)
    IN  IF results.raised
        THEN [kind |-> "error", blocks |-> <<>>]
        ELSE IF results.rows = <<>>
        THEN [kind |-> "No relevant policy documents found", blocks |-> <<>>]
        ELSE [kind |-> "documents",
              blocks |-> [i \in 1..Len(results.rows) |->
                            [number |-> i, row |-> results.rows[i]]]]

NoRetrCall ==
    [op |-> "none", query |-> 0, k |-> [given |-> FALSE, val |-> 0],
     omitted |-> FALSE, passed |-> [given |-> FALSE, val |-> 0],
     up |-> TRUE, storeK |-> <<>>, raised |-> FALSE, rows |-> <<>>,
     text |-> [kind |-> "", blocks |-> <<>>], stats |-> <<>>]

RetrInit ==
    /\ storeUp \in BOOLEAN
    /\ collection \in Collections
    /\ topK \in KValues
    /\ call = NoRetrCall

\* the store or the embedding service becomes unreachable, or reachable again
StoreFlip ==
    /\ storeUp' = ~storeUp
    /\ UNCHANGED <<collection, topK, call, retrOthers>>

Retrieve ==
    /\ call = NoRetrCall
    /\ \E q \in Queries, k \in KInputs :
          LET r == retrieve(storeUp, collection, topK, q, k)
          IN  call' = [NoRetrCall EXCEPT !.op = "retrieve", !.query = q, !.k = k,
                         !.up = storeUp, !.storeK = r.asked,
                         !.raised = r.raised, !.rows = r.rows]
    /\ UNCHANGED <<storeUp, collection, topK, retrOthers>>

RetrieveWithScores ==
    /\ call = NoRetrCall
    /\ \E q \in Queries, k \in KInputs :
          LET r == retrieve_with_scores(storeUp, collection, topK, q, k)
          IN  call' = [NoRetrCall EXCEPT !.op = "retrieve_with_scores",
                         !.query = q, !.k = k,
                         !.up = storeUp, !.storeK = r.asked,
                         !.raised = r.raised, !.rows = r.rows]
    /\ UNCHANGED <<storeUp, collection, topK, retrOthers>>

RagSearch ==
    /\ call = NoRetrCall
    /\ \E q \in Queries, arg \in RagArgs :
          LET k == ToolK(arg)
              r == retrieve_with_scores(storeUp, collection, topK, q, k)
              t == RagRun(storeUp, collection, topK, q, k)
          IN  call' = [NoRetrCall EXCEPT !.op = "rag_search",
                         !.query = q, !.k = k,
                         !.omitted = arg.omitted, !.passed = arg.k,
                         !.up = storeUp, !.storeK = r.asked,
                         !.raised = r.raised, !.rows = r.rows, !.text = t]
    /\ UNCHANGED <<storeUp, collection, topK, retrOthers>>

CollectionStats ==
    /\ call = NoRetrCall
    /\ call' = [NoRetrCall EXCEPT !.op = "get_collection_stats", !.up = storeUp,
                  !.stats = get_collection_stats(storeUp, collection)]
    /\ UNCHANGED <<storeUp, collection, topK, retrOthers>>

\* The result is handed to the caller; the retriever keeps nothing of it
Deliver ==
    /\ call # NoRetrCall
    /\ call' = NoRetrCall
    /\ UNCHANGED <<storeUp, collection, topK, retrOthers>>

RetrNext ==
    \/ StoreFlip
    \/ Retrieve
    \/ RetrieveWithScores
    \/ RagSearch
    \/ CollectionStats
    \/ Deliver

(***************************************************************************)
(* RecursiveCharacterTextSplitter(chunk_size, chunk_overlap,               *)
(*     length_function=len, separators=["\n\n", "\n", " ", ""])            *)
(* A piece of text is kept with the position of its first character in the *)
(* document, so that a chunk knows which part of the document it covers.   *)
(***************************************************************************)

Whitespace == {" ", "\n", "\t"}

RECURSIVE LStrip(_)
LStrip(s) ==
    IF s # <<>> /\ Head(s) \in Whitespace THEN LStrip(Tail(s)) ELSE s

RECURSIVE RStrip(_)
RStrip(s) ==
    IF s # <<>> /\ s[Len(s)] \in Whitespace
    THEN RStrip(SubSeq(s, 1, Len(s) - 1)) ELSE s

\* str.strip()
Strip(s) == RStrip(LStrip(s))

\* text[i:].startswith(sep)  (1-based i)
StartsWithAt(text, i, sep) ==
    /\ i >= 1
    /\ i + Len(sep) - 1 <= Len(text)
    /\ \A k \in 1..Len(sep) : text[i + k - 1] = sep[k]

\* sep in text
Occurs(text, sep) == \E i \in 1..(Len(text) + 1) : StartsWithAt(text, i, sep)

separators == << <<"\n", "\n">>, <<"\n">>, <<" ">>, <<>> >>

\* re.split with the separator kept at the start of the piece that follows
\* it; cur is the piece being read, which starts at position at
RECURSIVE SplitFrom(_, _, _, _, _, _, _)
SplitFrom(text, base, sep, i, at, cur, acc) ==
    IF i > Len(text) THEN Append(acc, [at |-> at, txt |-> cur])
    ELSE IF StartsWithAt(text, i, sep)
    THEN SplitFrom(text, base, sep, i + Len(sep), base + i - 1, sep,
                   Append(acc, [at |-> at, txt |-> cur]))
    ELSE SplitFrom(text, base, sep, i + 1, at, Append(cur, text[i]), acc)

\* _split_text_with_regex(text, separator, keep_separator=True): the pieces
\* that are not empty; with the separator "" the single characters
SplitKeep(text, base, sep) ==
    IF sep = <<>>
    THEN [i \in 1..Len(text) |-> [at |-> base + i - 1, txt |-> <<text[i]>>]]
    ELSE SelectSeq(SplitFrom(text, base, sep, 1, base, <<>>, <<>>),
                   LAMBDA piece : piece.txt # <<>>)

RECURSIVE JoinPieces(_)
JoinPieces(pieces) ==
    IF pieces = <<>> THEN <<>> ELSE Head(pieces).txt \o JoinPieces(Tail(pieces))

\* _join_docs: the pieces joined and stripped; nothing if that is empty
JoinDocs(docs, cur) ==
    LET raw == JoinPieces(cur)
    IN  IF Strip(raw) = <<>> THEN docs
        ELSE Append(docs, [from |-> cur[1].at,
                           to   |-> cur[1].at + Len(raw) - 1,
                           txt  |-> Strip(raw)])

\* pieces dropped only until the next piece fits, whatever the overlap
RECURSIVE DropForOverlap_UntilFits(_, _, _, _, _)
DropForOverlap_UntilFits(cur, total, len, chunk_size, chunk_overlap) ==
    IF total + len > chunk_size /\ total > 0
    THEN DropForOverlap_UntilFits(Tail(cur), total - Len(Head(cur).txt), len,
                                  chunk_size, chunk_overlap)
    ELSE [cur |-> cur, total |-> total]

\* while total > chunk_overlap or (total + len(d) > chunk_size and total > 0):
\*     drop the first piece of current_doc
RECURSIVE DropForOverlap(_, _, _, _, _)
DropForOverlap(cur, total, len, chunk_size, chunk_overlap) ==
    IF total > chunk_overlap \/ (total + len > chunk_size /\ total > 0)
    THEN DropForOverlap(Tail(cur), total - Len(Head(cur).txt), len,
                        chunk_size, chunk_overlap)
    ELSE [cur |-> cur, total |-> total]

\* _merge_splits(splits, separator=""): pieces packed into chunks
RECURSIVE MergeFrom(_, _, _, _, _, _, _)
MergeFrom(splits, i, cur, total, docs, chunk_size, chunk_overlap) ==
    IF i > Len(splits)
    THEN (IF cur = <<>> THEN docs ELSE JoinDocs(docs, cur))
    ELSE
    LET d   == splits[i]
        len == Len(d.txt)
    IN  IF total + len > chunk_size /\ cur # <<>>
        THEN LET kept == DropForOverlap(cur, total, len, chunk_size, chunk_overlap)
             IN  MergeFrom(splits, i + 1, Append(kept.cur, d), kept.total + len,
                           JoinDocs(docs, cur), chunk_size, chunk_overlap)
        ELSE MergeFrom(splits, i + 1, Append(cur, d), total + len, docs,
                       chunk_size, chunk_overlap)

MergeSplits(splits, chunk_size, chunk_overlap) ==
    MergeFrom(splits, 1, <<>>, 0, <<>>, chunk_size, chunk_overlap)

\* index of the first separator that is "" or occurs in the text
RECURSIVE FirstSeparator(_, _, _)
FirstSeparator(text, seps, i) ==
    IF i >= Len(seps) \/ seps[i] = <<>> \/ Occurs(text, seps[i]) THEN i
    ELSE FirstSeparator(text, seps, i + 1)

\* a piece too long to be merged is kept as it is
WholePiece(piece) ==
    [from |-> piece.at, to |-> piece.at + Len(piece.txt) - 1, txt |-> piece.txt]

RECURSIVE SplitText(_, _, _, _, _)
RECURSIVE WalkSplits(_, _, _, _, _, _, _)

\* the loop of _split_text over the pieces: short pieces are collected and
\* merged, a long piece is split by the finer separators
WalkSplits(splits, i, good, final, new_separators, chunk_size, chunk_overlap) ==
    LET flushed == IF good = <<>> THEN final
                   ELSE final \o MergeSplits(good, chunk_size, chunk_overlap)
    IN  IF i > Len(splits) THEN flushed
        ELSE IF Len(splits[i].txt) < chunk_size
        THEN WalkSplits(splits, i + 1, Append(good, splits[i]), final,
                        new_separators, chunk_size, chunk_overlap)
        ELSE IF new_separators = <<>>
        THEN WalkSplits(splits, i + 1, <<>>, Append(flushed, WholePiece(splits[i])),
                        new_separators, chunk_size, chunk_overlap)
        ELSE WalkSplits(splits, i + 1, <<>>,
                        flushed \o SplitText(splits[i].txt, splits[i].at,
                                             new_separators, chunk_size, chunk_overlap),
                        new_separators, chunk_size, chunk_overlap)

\* _split_text(text, separators)
SplitText(text, base, seps, chunk_size, chunk_overlap) ==
    LET k   == FirstSeparator(text, seps, 1)
        sep == seps[k]
        new_separators == IF sep = <<>> THEN <<>> ELSE SubSeq(seps, k + 1, Len(seps))
    IN  WalkSplits(SplitKeep(text, base, sep), 1, <<>>, <<>>,
                   new_separators, chunk_size, chunk_overlap)

\* TextSplitter.__init__: "Got a larger chunk overlap than chunk size"
SplitterAccepts(chunk_size, chunk_overlap) == ~(chunk_overlap > chunk_size)

\* text_splitter.split_documents([doc]): the chunks of one document
ChunkDocument(text, chunk_size, chunk_overlap) ==
    SplitText(text, 1, separators, chunk_size, chunk_overlap)

\* ---- inputs of the splitter ----

MaxTextLen == 5

MaxChunkSize == 3

TextAlphabet == {"a", "b", " ", "\n"}

Texts == UNION {[1..n -> TextAlphabet] : n \in 0..MaxTextLen}

\* chunk sizes and overlaps the constructor accepts
SplitterSettings ==
    {st \in (1..MaxChunkSize) \X (0..MaxChunkSize) : SplitterAccepts(st[1], st[2])}

NoSplit == [text |-> <<>>, chunk_size |-> 0, chunk_overlap |-> 0,
            called |-> FALSE, chunks |-> <<>>]

\* DocumentIngestion.chunk_documents on one document
ChunkDocuments ==
    /\ split = NoSplit
    /\ \E text \in Texts, st \in SplitterSettings :
          split' = [text |-> text, chunk_size |-> st[1], chunk_overlap |-> st[2],
                    called |-> TRUE,
                    chunks |-> ChunkDocument(text, st[1], st[2])]
    /\ UNCHANGED <<summary, textOthers>>

\* the chunks are handed to the vector store
ChunksTaken ==
    /\ split # NoSplit
    /\ split' = NoSplit
    /\ UNCHANGED <<summary, textOthers>>

ChunkNext == ChunkDocuments \/ ChunksTaken

(***************************************************************************)
(* Summarizer: src/tools/summarizer_tool.py, PolicySummarizerTool._run     *)
(***************************************************************************)

timeframe_keywords ==
    << <<"d", "a", "y", "s">>,
       <<"d", "a", "y">>,
       <<"w", "i", "t", "h", "i", "n">>,
       <<"d", "e", "a", "d", "l", "i", "n", "e">>,
       <<"p", "e", "r", "i", "o", "d">>,
       <<"w", "i", "n", "d", "o", "w">> >>

requirement_keywords ==
    << <<"m", "u", "s", "t">>,
       <<"r", "e", "q", "u", "i", "r", "e", "d">>,
       <<"n", "e", "e", "d">>,
       <<"n", "e", "c", "e", "s", "s", "a", "r", "y">>,
       <<"s", "h", "o", "u", "l", "d">> >>

process_keywords ==
    << <<"s", "t", "e", "p">>,
       <<"p", "r", "o", "c", "e", "s", "s">>,
       <<"p", "r", "o", "c", "e", "d", "u", "r", "e">>,
       <<"h", "o", "w", " ", "t", "o">>,
       <<"c", "o", "n", "t", "a", "c", "t">> >>

condition_keywords ==
    << <<"i", "f">>,
       <<"u", "n", "l", "e", "s", "s">>,
       <<"p", "r", "o", "v", "i", "d", "e", "d">>,
       <<"c", "o", "n", "d", "i", "t", "i", "o", "n">>,
       <<"e", "l", "i", "g", "i", "b", "l", "e">> >>

\* the character U+2022 that starts every key point
Bullet == "U+2022"

MinLineLen == 20
MeaningfulLen == 30
FallbackLines == 5
MaxPoints == 10

\* the positions of the line breaks of text
Newlines(text) == {i \in 1..Len(text) : text[i] = "\n"}

\* the first line break at or after start, 0 when there is none
NextNewline(at, start) ==
    LET rest == {i \in at : i >= start}
    IN  IF rest = {} THEN 0 ELSE CHOOSE i \in rest : \A j \in rest : i <= j

RECURSIVE SplitLinesFrom(_, _, _)
SplitLinesFrom(text, at, start) ==
    LET j == NextNewline(at, start)
    IN  IF j = 0 THEN <<SubSeq(text, start, Len(text))>>
        ELSE <<SubSeq(text, start, j - 1)>> \o SplitLinesFrom(text, at, j + 1)

\* policy_text.split('\n')
SplitLines(text) == SplitLinesFrom(text, Newlines(text), 1)

RECURSIVE JoinLines(_)
\* "\n".join(lines)
JoinLines(lines) ==
    IF lines = <<>> THEN <<>>
    ELSE IF Len(lines) = 1 THEN lines[1]
    ELSE lines[1] \o <<"\n">> \o JoinLines(Tail(lines))

F_general ==
    <<"g", "e", "n", "e", "r", "a", "l">>
F_timeframes ==
    <<"t", "i", "m", "e", "f", "r", "a", "m", "e", "s">>
F_Timeframes_Capital ==
    <<"T", "i", "m", "e", "f", "r", "a", "m", "e", "s">>
F_requirements ==
    <<"r", "e", "q", "u", "i", "r", "e", "m", "e", "n", "t", "s">>
F_process ==
    <<"p", "r", "o", "c", "e", "s", "s">>
F_conditions ==
    <<"c", "o", "n", "d", "i", "t", "i", "o", "n", "s">>

\* the keywords selected by focus_area.lower()
PriorityKeywords(focus_area) ==
    LET f == Lower(focus_area)
    IN  IF f = F_timeframes THEN timeframe_keywords
        ELSE IF f = F_requirements THEN requirement_keywords
        ELSE IF f = F_process THEN process_keywords
        ELSE timeframe_keywords \o requirement_keywords \o condition_keywords

\* any(keyword in line_lower for keyword in keywords)
ContainsAny(line_lower, keywords) ==
    \E k \in 1..Len(keywords) : Occurs(line_lower, keywords[k])

\* line.endswith(('.', '!', '?'))
EndsWithPunctuation(line) == line # <<>> /\ line[Len(line)] \in {".", "!", "?"}

\* a full stop is appended to every line
Clean_Always(line) == Append(line, ".")

\* if not line.endswith(('.', '!', '?')): line += '.'
Clean(line) == IF EndsWithPunctuation(line) THEN line ELSE Append(line, ".")

\* f"<bullet> {line}"
Point(line) == <<Bullet, " ">> \o line

RECURSIVE KeyPoints(_, _)
\* the loop over the lines: stripped lines of at least 20 characters that
\* contain a priority keyword
KeyPoints(lines, keywords) ==
    IF lines = <<>> THEN <<>>
    ELSE LET line == Strip(Head(lines))
             rest == KeyPoints(Tail(lines), keywords)
         IN  IF line = <<>> \/ Len(line) < MinLineLen THEN rest
             ELSE IF ContainsAny(Lower(line), keywords)
                  THEN <<Point(Clean(line))>> \o rest
                  ELSE rest

\* a fallback line is kept from 30 characters on
IsMeaningful_FromThirty(line) == Strip(line) # <<>> /\ Len(Strip(line)) >= MeaningfulLen

\* line.strip() and len(line.strip()) > 30
IsMeaningful(line) == Strip(line) # <<>> /\ Len(Strip(line)) > MeaningfulLen

RECURSIVE MeaningfulLines(_)
MeaningfulLines(lines) ==
    IF lines = <<>> THEN <<>>
    ELSE IF IsMeaningful(Head(lines))
         THEN <<Strip(Head(lines))>> \o MeaningfulLines(Tail(lines))
         ELSE MeaningfulLines(Tail(lines))

\* s[:n]
FirstN(s, n) == SubSeq(s, 1, IF Len(s) < n THEN Len(s) ELSE n)

\* every key point is returned
Limit_Unbounded(key_points) == key_points

\* key_points[:10]
Limit(key_points) == FirstN(key_points, MaxPoints)

SummaryHeader(focus_area) ==
    <<"K", "E", "Y", " ", "P", "O", "I", "N", "T", "S", " ", "(", "F", "o",
      "c", "u", "s", ":", " ">> \o focus_area \o <<")", ":", "\n">>

\* PolicySummarizerTool._run: the text it returns
Summarize(policy_text, focus_area) ==
    LET lines    == SplitLines(policy_text)
        matched  == KeyPoints(lines, PriorityKeywords(focus_area))
        fallback == FirstN(MeaningfulLines(lines), FallbackLines)
        key_points == IF matched = <<>>
                      THEN [i \in 1..Len(fallback) |-> Point(fallback[i])]
                      ELSE matched
    IN  SummaryHeader(focus_area) \o JoinLines(Limit(key_points))

(* Inputs: policy texts are built from a palette of lines *)

LineTimeframe ==
    <<"R", "e", "t", "u", "r", "n", " ", "i", "t", "e", "m", "s", " ", "w",
      "i", "t", "h", "i", "n", " ", "3", "0", " ", "d", "a", "y", "s">>

LineRequirement ==
    <<"A", " ", "r", "e", "c", "e", "i", "p", "t", " ", "i", "s", " ", "R",
      "E", "Q", "U", "I", "R", "E", "D", " ", "o", "n", " ", "a", "l", "l",
      " ", "r", "e", "t", "u", "r", "n", "s", "!">>

LineProcess ==
    <<"C", "o", "n", "t", "a", "c", "t", " ", "t", "h", "e", " ", "s", "u",
      "p", "p", "o", "r", "t", " ", "t", "e", "a", "m", " ", "b", "y", " ",
      "p", "h", "o", "n", "e">>

LineCondition ==
    <<"O", "p", "e", "n", "e", "d", " ", "g", "o", "o", "d", "s", " ", "a",
      "r", "e", " ", "n", "o", "t", " ", "e", "l", "i", "g", "i", "b", "l",
      "e", ".">>

LineShortKeyword ==
    <<"m", "u", "s", "t", " ", "s", "h", "o", "w", " ", "a", " ", "r", "e",
      "c", "e", "i", "p", "t">>

LineMinimalKeyword ==
    <<"m", "u", "s", "t", " ", "s", "h", "o", "w", " ", "m", "y", " ", "r",
      "e", "c", "e", "i", "p", "t">>

LinePadded ==
    <<" ", " ", "W", "e", " ", "a", "r", "e", " ", "o", "p", "e", "n", " ",
      "a", "t", " ", "n", "i", "n", "e", " ", "a", "n", "d", " ", "w", "e",
      " ", "c", "l", "o", "s", "e", " ", "a", "t", " ", "s", "e", "v", "e",
      "n", " ", "\t">>

Palette ==
    <<LineTimeframe, LineRequirement, LineProcess, LineCondition,
      LineShortKeyword, LineMinimalKeyword, LinePadded>>

MaxLines == 2
MaxRepeat == 6

Bases == UNION {[1..n -> 1..Len(Palette)] : n \in 0..MaxLines}

RECURSIVE Repeat(_, _)
Repeat(base, r) == IF r = 0 THEN <<>> ELSE base \o Repeat(base, r - 1)

TextOf(base, r) ==
    LET picks == Repeat(base, r)
    IN  JoinLines([i \in 1..Len(picks) |-> Palette[picks[i]]])

PolicyTexts == {TextOf(base, r) : base \in Bases, r \in {1, MaxRepeat}}

FocusAreas ==
    {F_general, F_Timeframes_Capital, F_requirements, F_process, F_conditions}

NoSummary == [called |-> FALSE, policy_text |-> <<>>, focus_area |-> <<>>,
              result |-> <<>>]

\* one call of the policy_summarizer tool
RunSummarizer ==
    /\ summary = NoSummary
    /\ \E policy_text \in PolicyTexts, focus_area \in FocusAreas :
          summary' = [called |-> TRUE, policy_text |-> policy_text,
                      focus_area |-> focus_area,
                      result |-> Summarize(policy_text, focus_area)]
    /\ UNCHANGED <<split, textOthers>>

\* the caller has read the summary
SummaryRead ==
    /\ summary # NoSummary
    /\ summary' = NoSummary
    /\ UNCHANGED <<split, textOthers>>

SummNext == RunSummarizer \/ SummaryRead

(***************************************************************************)
(* Ingestion pipeline and start-up: src/rag/ingestion.py, main.py          *)
(***************************************************************************)

supported_extensions ==
    {<<".", "p", "d", "f">>, <<".", "t", "x", "t">>, <<".", "m", "d">>}

\* the positions of the files load_documents_from_directory tries to load
Candidates(dir) ==
    {i \in 1..Len(dir.files) :
        dir.files[i].is_file /\ Lower(dir.files[i].suffix) \in supported_extensions}

RECURSIVE LoadFrom_AbortOnFailure(_, _)
\* the loop gives up at the first file that fails to load
LoadFrom_AbortOnFailure(dir, i) ==
    IF i > Len(dir.files) THEN <<>>
    ELSE IF i \notin Candidates(dir) THEN LoadFrom_AbortOnFailure(dir, i + 1)
    ELSE IF dir.files[i].readable
         THEN <<[file |-> i, page_content |-> dir.files[i].content]>>
                  \o LoadFrom_AbortOnFailure(dir, i + 1)
         ELSE <<>>

RECURSIVE LoadFrom(_, _)
\* the loop over directory.iterdir(): a file that fails to load is logged
\* and skipped
LoadFrom(dir, i) ==
    IF i > Len(dir.files) THEN <<>>
    ELSE IF i \notin Candidates(dir) THEN LoadFrom(dir, i + 1)
    ELSE IF dir.files[i].readable
         THEN <<[file |-> i, page_content |-> dir.files[i].content]>>
                  \o LoadFrom(dir, i + 1)
         ELSE LoadFrom(dir, i + 1)

\* DocumentIngestion.load_documents_from_directory
load_documents_from_directory(dir) ==
    IF ~dir.exists THEN <<>> ELSE LoadFrom(dir, 1)

RECURSIVE split_documents(_, _, _)
\* text_splitter.split_documents: the chunks of every document, in order
split_documents(documents, chunk_size, chunk_overlap) ==
    IF documents = <<>> THEN <<>>
    ELSE LET doc    == Head(documents)
             pieces == ChunkDocument(doc.page_content, chunk_size, chunk_overlap)
         IN  [k \in 1..Len(pieces) |-> [file |-> doc.file, text |-> pieces[k].txt]]
                 \o split_documents(Tail(documents), chunk_size, chunk_overlap)

\* the largest number of records the store takes in one call
MaxBatch == 2

RECURSIVE create_batches(_)
create_batches(chunks) ==
    IF chunks = <<>> THEN <<>>
    ELSE IF Len(chunks) <= MaxBatch THEN <<chunks>>
    ELSE <<SubSeq(chunks, 1, MaxBatch)>>
             \o create_batches(SubSeq(chunks, MaxBatch + 1, Len(chunks)))

\* the write replaces what the collection held
Upsert_Replace(records, batch) == batch

\* collection.upsert of records with fresh ids
Upsert(records, batch) == records \o batch

RECURSIVE AddBatches(_, _, _)
\* the first upto batches, embedded and written one after the other
AddBatches(records, batches, upto) ==
    IF upto = 0 THEN records
    ELSE Upsert(AddBatches(records, batches, upto - 1), batches[upto])

\* Chroma.from_documents inside ingest_to_vectordb: the collection is opened
\* (and created when missing), then every batch is embedded and written;
\* failAt is the batch whose embedding fails (0: none), and an empty list of
\* chunks is either a no-op or rejected by the store (emptyRaises)
ingest_to_vectordb(store, chunks, model, n, failAt, emptyRaises) ==
    LET batches == create_batches(chunks)
        tagged  == [b \in 1..Len(batches) |->
                      [k \in 1..Len(batches[b]) |->
                          [run |-> n, file |-> batches[b][k].file,
                           text |-> batches[b][k].text, model |-> model]]]
    IN  IF chunks = <<>>
        THEN [outcome |-> IF emptyRaises THEN "store_error" ELSE "ok",
              store |-> [exists |-> TRUE, records |-> store.records]]
        ELSE IF failAt \in 1..Len(batches)
        THEN [outcome |-> "embedding_error",
              store |-> [exists |-> TRUE,
                         records |-> AddBatches(store.records, tagged, failAt - 1)]]
        ELSE [outcome |-> "ok",
              store |-> [exists |-> TRUE,
                         records |-> AddBatches(store.records, tagged, Len(batches))]]

\* ingest_policy_documents: what it raises (outcome), the store it leaves,
\* the files it loaded and the number of chunks it made
ingest_policy_documents(dir, store, e, n, failAt, emptyRaises) ==
    IF ~SplitterAccepts(e.chunk_size, e.chunk_overlap)
    THEN [outcome |-> "config_error", store |-> store, loaded |-> <<>>, chunks |-> 0]
    ELSE LET documents == load_documents_from_directory(dir)
             chunks    == split_documents(documents, e.chunk_size, e.chunk_overlap)
             written   == ingest_to_vectordb(store, chunks, e.embedding_model, n,
                                             failAt, emptyRaises)
         IN  IF documents = <<>>
             THEN [outcome |-> "no_documents", store |-> store,
                   loaded |-> <<>>, chunks |-> 0]
             ELSE [outcome |-> written.outcome, store |-> written.store,
                   loaded |-> [i \in 1..Len(documents) |-> documents[i].file],
                   chunks |-> Len(chunks)]

\* the chunks a run on dir makes under the settings e, in batches
BatchesOf(dir, e) ==
    IF ~SplitterAccepts(e.chunk_size, e.chunk_overlap) THEN <<>>
    ELSE create_batches(split_documents(load_documents_from_directory(dir),
                                        e.chunk_size, e.chunk_overlap))

\* the batches whose embedding may fail (0: none does)
FailurePoints(dir, e) == 0..Len(BatchesOf(dir, e))

\* what the store may do with an empty list of chunks: only a run that loads
\* documents and makes no chunk gets that far
EmptyOutcomes(dir, e) ==
    IF /\ SplitterAccepts(e.chunk_size, e.chunk_overlap)
       /\ load_documents_from_directory(dir) # <<>>
       /\ BatchesOf(dir, e) = <<>>
    THEN BOOLEAN ELSE {FALSE}

(* Inputs *)

Doc_Policy == <<"a", " ", "b">>

FileKinds ==
    {[suffix |-> <<".", "t", "x", "t">>, is_file |-> TRUE, readable |-> TRUE,
      content |-> Doc_Policy],
     [suffix |-> <<".", "P", "D", "F">>, is_file |-> TRUE, readable |-> TRUE,
      content |-> <<>>],
     [suffix |-> <<".", "m", "d">>, is_file |-> TRUE, readable |-> FALSE,
      content |-> <<>>],
     [suffix |-> <<".", "c", "s", "v">>, is_file |-> TRUE, readable |-> TRUE,
      content |-> Doc_Policy]}

MaxFiles == 2
MaxRuns == 2

Directories ==
    {[exists |-> FALSE, files |-> <<>>]}
        \cup {[exists |-> TRUE, files |-> fs] :
                 fs \in UNION {[1..n -> FileKinds] : n \in 0..MaxFiles}}

EmbeddingModels == {"model-a", "model-b"}

\* CHUNK_SIZE and CHUNK_OVERLAP settings; load_config accepts every pair
ChunkSettings == {<<2, 1>>, <<2, 2>>, <<2, 3>>}

Settings ==
    {[embedding_model |-> m, chunk_size |-> st[1], chunk_overlap |-> st[2]] :
        m \in EmbeddingModels, st \in ChunkSettings}

NoStore == [exists |-> FALSE, records |-> <<>>]
NoRun == [n |-> 0, outcome |-> "none", loaded |-> <<>>, chunks |-> 0,
          before |-> NoStore]
Down == [up |-> FALSE, retriever_model |-> "", exit |-> "none", status |-> 0,
         document_count |-> 0, fault |-> "none", reingest |-> FALSE]

IngInit ==
    /\ dataDir \in Directories
    /\ env \in {e \in Settings : e.embedding_model = "model-a"}
    /\ persisted = NoStore
    /\ run = NoRun
    /\ proc = Down

RunRecord(res, before) ==
    [n |-> run.n + 1, outcome |-> res.outcome, loaded |-> res.loaded,
     chunks |-> res.chunks, before |-> before]

\* a caller runs ingest_policy_documents on the data directory and the
\* vector-store directory
Ingest ==
    /\ run.n < MaxRuns
    /\ \E failAt \in FailurePoints(dataDir, env),
          emptyRaises \in EmptyOutcomes(dataDir, env) :
          \E res \in {ingest_policy_documents(dataDir, persisted, env, run.n + 1,
                                               failAt, emptyRaises)} :
              /\ persisted' = res.store
              /\ run' = RunRecord(res, persisted)
    /\ UNCHANGED <<dataDir, env, proc, ingOthers>>

\* What makes load_config raise: OPENAI_API_KEY missing or a placeholder,
\* LOG_LEVEL not a level. A start may also find the retriever or the crew
\* failing to construct ("retriever", "crew"), or nothing of this ("none");
\* proc.fault records the fault the start ran into.
ConfigFaults == {"api_key", "log_level"}

\* the vector-store directory is taken to need no ingestion
NeedsIngestion_Never(store) == FALSE

\* needs_ingestion = not vector_db_path.exists()
NeedsIngestion(store) == ~store.exists

\* the directory is left in place
RemoveVectorDb_Keep(store) == store

\* if vector_db_path.exists(): shutil.rmtree(vector_db_path)
RemoveVectorDb(store) == NoStore

\* the process goes on with status 0
Fatal_GoesOn(reason, fault) ==
    [Down EXCEPT !.up = TRUE, !.exit = reason, !.fault = fault]

\* print(...); sys.exit(1)
Fatal(reason, fault) ==
    [Down EXCEPT !.exit = reason, !.status = 1, !.fault = fault]

\* return config, logger, crew
Running(model, count, fault) ==
    [Down EXCEPT !.up = TRUE, !.retriever_model = model,
                 !.document_count = count, !.fault = fault]

\* steps 3 and 4 of setup_system on the store as ingestion left it: the
\* retriever is constructed and the collection counted, the tools and the
\* crew are created
Serve(store, fault) ==
    IF fault = "retriever" THEN Fatal("retriever", fault)
    ELSE IF fault = "crew" THEN Fatal("crew", fault)
    ELSE Running(env.embedding_model, Len(store.records), fault)

\* main.main and setup_system: load_config fails on the API key or the log
\* level before anything is removed or created; --reingest removes the
\* vector-store directory; the directories are created; the documents are
\* ingested when the store directory is missing; the retriever (which opens
\* or creates the store directory) and the crew are created
Setup(found, reingest, fault, failAt, emptyRaises) ==
    LET store == IF reingest THEN RemoveVectorDb(found) ELSE found
        dir == [dataDir EXCEPT !.exists = TRUE]
        res == ingest_policy_documents(dir, store, env, run.n + 1, failAt, emptyRaises)
        wiped == [run EXCEPT !.outcome = "none", !.loaded = <<>>, !.chunks = 0,
                             !.before = store]
        launched(p) == [p EXCEPT !.reingest = reingest]
    IN  IF fault \in ConfigFaults
        THEN /\ proc' = launched(Fatal("configuration", fault))
             /\ UNCHANGED <<dataDir, persisted, run>>
        ELSE /\ dataDir' = dir
             /\ IF ~NeedsIngestion(store)
                THEN /\ run' = IF store = persisted THEN run ELSE wiped
                     /\ proc' = launched(Serve(store, fault))
                     /\ persisted' = IF fault = "retriever" THEN store
                                     ELSE [store EXCEPT !.exists = TRUE]
                ELSE IF dir.files = <<>>
                THEN /\ persisted' = store
                     /\ run' = IF store = persisted THEN run ELSE wiped
                     /\ proc' = launched(Fatal("no_policy_documents", "none"))
                ELSE \E done \in {res} :
                     /\ persisted' = done.store
                     /\ run' = RunRecord(done, store)
                     /\ proc' = launched(IF done.outcome = "ok"
                                         THEN Serve(done.store, fault)
                                         ELSE Fatal("ingestion", "none"))

\* What can go wrong in one start: a configuration fault ends it before
\* anything else is tried, and the embedding service is used only by a start
\* that ingests
StartInputs(found, reingest) ==
    LET ingests == reingest \/ ~found.exists
        points == IF ingests THEN FailurePoints(dataDir, env) ELSE {0}
        empties == IF ingests THEN EmptyOutcomes(dataDir, env) ELSE {FALSE}
    IN  {<<f, 0, FALSE>> : f \in ConfigFaults}
            \cup ({"none", "retriever", "crew"} \X points \X empties)

\* python main.py, no process of the program running and the exit of the
\* last one noted
Start ==
    /\ proc = Down
    /\ persisted.exists \/ run.n < MaxRuns
    /\ \E i \in StartInputs(persisted, FALSE) :
          Setup(persisted, FALSE, i[1], i[2], i[3])
    /\ UNCHANGED <<env, ingOthers>>

\* python main.py --reingest
StartReingest ==
    /\ proc = Down
    /\ run.n < MaxRuns
    /\ \E i \in StartInputs(persisted, TRUE) :
          Setup(persisted, TRUE, i[1], i[2], i[3])
    /\ UNCHANGED <<env, ingOthers>>

\* the process ends, or the exit of a process that has ended is noted
Stop ==
    /\ proc # Down
    /\ proc' = Down
    /\ UNCHANGED <<dataDir, persisted, env, run, ingOthers>>

\* EMBEDDING_MODEL is changed between two runs of the program
Reconfigure ==
    /\ ~proc.up
    /\ \E m \in EmbeddingModels \ {env.embedding_model} :
          env' = [env EXCEPT !.embedding_model = m]
    /\ UNCHANGED <<dataDir, persisted, run, proc, ingOthers>>

IngNext == Ingest \/ Start \/ StartReingest \/ Stop \/ Reconfigure

(***************************************************************************)
(* Interactive session (src/main.py)                                       *)
(***************************************************************************)

MaxPrompts == 3

\* if query.lower() in ['quit', 'exit', 'q']
QuitWords == {<<"q", "u", "i", "t">>, <<"e", "x", "i", "t">>, <<"q">>}

IsQuit(query) == Lower(query) \in QuitWords

\* the crew's exception reaches the caller
process_query_Propagate(crew) ==
    IF crew = "response" THEN [raised |-> "none", value |-> "response"]
    ELSE IF crew = "raises" THEN [raised |-> "Exception", value |-> ""]
    ELSE [raised |-> "KeyboardInterrupt", value |-> ""]

\* process_query(crew, query, logger): the crew's answer, None when the crew
\* raises an Exception; a KeyboardInterrupt is no Exception and passes
process_query(crew) ==
    IF crew = "response" THEN [raised |-> "none", value |-> "response"]
    ELSE IF crew = "raises" THEN [raised |-> "none", value |-> "None"]
    ELSE [raised |-> "KeyboardInterrupt", value |-> ""]

(* Inputs *)

In_q_padded == <<" ", "q", " ">>
In_QUIT == <<"Q", "U", "I", "T">>
In_Exit == <<"E", "x", "i", "t">>
In_empty == <<>>
In_blank == <<" ", "\t">>
In_question == <<"h", "i", "?">>
In_quit_it == <<"q", "u", "i", "t", " ", "i", "t">>

TypedLines ==
    {In_q_padded, In_QUIT, In_Exit, In_empty, In_blank, In_question, In_quit_it}

\* what input() gives: a line, or EOFError, or KeyboardInterrupt
PromptEvents ==
    {[kind |-> "line", text |-> t] : t \in TypedLines}
        \cup {[kind |-> k, text |-> <<>>] : k \in {"EOFError", "KeyboardInterrupt"}}

\* what crew.process_query does: answers, raises an Exception, or is
\* interrupted from the keyboard
CrewOutcomes == {"response", "raises", "KeyboardInterrupt"}

NoPrompt ==
    [kind |-> "none", text |-> <<>>, sent |-> FALSE, crew |-> "none",
     raised |-> "none", value |-> ""]

NoSession ==
    [state |-> "none", why |-> "", prompts |-> 0, sent |-> 0, failed |-> 0,
     last |-> NoPrompt]

\* main: interactive_mode(crew, logger) after a successful setup
EnterInteractive ==
    /\ session.state = "none"
    /\ session' = [NoSession EXCEPT !.state = "prompting"]
    /\ UNCHANGED sessionOthers

\* one turn of the while loop of interactive_mode
Iteration(ev, crew) ==
    LET query == Strip(ev.text)
        r == process_query(crew)
        prompted == [session EXCEPT !.prompts = @ + 1]
        unsent == [NoPrompt EXCEPT !.kind = ev.kind, !.text = ev.text]
        ended(why) == [prompted EXCEPT !.state = "ended", !.why = why, !.last = unsent]
    IN  IF ev.kind # "line" THEN session' = ended(ev.kind)
        ELSE IF IsQuit(query) THEN session' = ended("quit")
        ELSE IF query = <<>> THEN session' = [prompted EXCEPT !.last = unsent]
        ELSE session' =
                 [prompted EXCEPT
                     !.sent = @ + 1,
                     !.failed = IF crew = "raises" THEN @ + 1 ELSE @,
                     !.state = IF r.raised = "none" THEN "prompting" ELSE "ended",
                     !.why = IF r.raised = "none" THEN "" ELSE r.raised,
                     !.last = [unsent EXCEPT !.sent = TRUE, !.crew = crew,
                                             !.raised = r.raised,
                                             !.value = r.value]]

\* the crew acts only on a line that is sent to it
IterationInputs ==
    {<<ev, "none">> : ev \in {e \in PromptEvents :
                                \/ e.kind # "line"
                                \/ IsQuit(Strip(e.text))
                                \/ Strip(e.text) = <<>>}}
        \cup ({e \in PromptEvents :
                  /\ e.kind = "line"
                  /\ ~IsQuit(Strip(e.text))
                  /\ Strip(e.text) # <<>>} \X CrewOutcomes)

Prompt ==
    /\ session.state = "prompting"
    /\ session.prompts < MaxPrompts
    /\ \E i \in IterationInputs : Iteration(i[1], i[2])
    /\ UNCHANGED sessionOthers

\* the process ends
Leave ==
    /\ session.state = "ended"
    /\ session' = NoSession
    /\ UNCHANGED sessionOthers

SessNext == EnterInteractive \/ Prompt \/ Leave

(***************************************************************************)
(* Callers that use one PolicyRetriever at the same time                   *)
(***************************************************************************)

Threads == {"t1", "t2"}

\* the k of a call: None, one record, more than the collection holds
ThreadK ==
    {[given |-> FALSE, val |-> 0], [given |-> TRUE, val |-> 1],
     [given |-> TRUE, val |-> MaxK]}

\* a collection that is empty and one that is full
ThreadCollections == {<<>>, [i \in 1..MaxRecords |-> ((i - 1) % MaxEmb) + 1]}

NoThreadCall ==
    [pc |-> "idle", op |-> "none", query |-> 0, k |-> [given |-> FALSE, val |-> 0],
     num_results |-> 0, raised |-> FALSE, rows |-> <<>>, stats |-> <<>>]

NoThreads == [t \in Threads |-> NoThreadCall]

\* the call stores the number it asks for in the retriever
SelfAfterCall_KeepsK(top_k, num_results) == num_results

\* retrieve, retrieve_with_scores and get_collection_stats assign nothing to
\* self: top_k after the call
SelfAfterCall(top_k, num_results) == top_k

ThreadsInit ==
    /\ storeUp \in BOOLEAN
    /\ collection \in ThreadCollections
    /\ topK \in KValues
    /\ call = NoRetrCall
    /\ threads = NoThreads

\* a thread enters retrieve or retrieve_with_scores and reads self.top_k
BeginRetrieve(t) ==
    /\ threads[t].pc = "idle"
    /\ \E op \in {"retrieve", "retrieve_with_scores"}, q \in Queries, k \in ThreadK :
          LET n == NumResults(k, topK)
          IN  /\ threads' = [threads EXCEPT ![t] =
                                [NoThreadCall EXCEPT !.pc = "begun", !.op = op,
                                     !.query = q, !.k = k, !.num_results = n]]
              /\ topK' = SelfAfterCall(topK, n)
    /\ UNCHANGED <<storeUp, collection, threadsOthers>>

\* a thread enters get_collection_stats
BeginStats(t) ==
    /\ threads[t].pc = "idle"
    /\ threads' = [threads EXCEPT ![t] =
                      [NoThreadCall EXCEPT !.pc = "begun",
                                           !.op = "get_collection_stats"]]
    /\ UNCHANGED <<storeUp, collection, topK, threadsOthers>>

\* the thread's request is answered by the store, and the method's try /
\* except turns a failure into its empty result
StoreAnswers(t) ==
    /\ threads[t].pc = "begun"
    /\ LET c == threads[t]
           r == IF c.op = "retrieve"
                THEN Recover(similarity_search(storeUp, collection, c.query,
                                               c.num_results))
                ELSE Recover(similarity_search_with_score(storeUp, collection,
                                                          c.query, c.num_results))
       IN  threads' = [threads EXCEPT ![t] =
                          IF c.op = "get_collection_stats"
                          THEN [c EXCEPT !.pc = "done",
                                         !.stats = get_collection_stats(storeUp, collection)]
                          ELSE [c EXCEPT !.pc = "done", !.raised = r.raised,
                                         !.rows = r.rows]]
    /\ UNCHANGED <<storeUp, collection, topK, threadsOthers>>

\* the result is returned to the thread's caller
Return(t) ==
    /\ threads[t].pc = "done"
    /\ threads' = [threads EXCEPT ![t] = NoThreadCall]
    /\ UNCHANGED <<storeUp, collection, topK, threadsOthers>>

ThreadsNext ==
    \E t \in Threads : BeginRetrieve(t) \/ BeginStats(t) \/ StoreAnswers(t) \/ Return(t)

(***************************************************************************)
(* Specifications                                                          *)
(***************************************************************************)

CalcIdle == now = Midnight(Strptime(D_2024_01_10).ord) /\ calc = NoCall
RetrIdle == storeUp = TRUE /\ collection = <<>> /\ topK = 3 /\ call = NoRetrCall
TextIdle == split = NoSplit /\ summary = NoSummary
IngIdle ==
    /\ dataDir = [exists |-> TRUE, files |-> <<>>]
    /\ env = [embedding_model |-> "model-a", chunk_size |-> 2, chunk_overlap |-> 1]
    /\ persisted = NoStore
    /\ run = NoRun
    /\ proc = Down

LiveIdle == session = NoSession /\ threads = NoThreads

Init == CalcInit /\ RetrInit /\ TextIdle /\ IngInit /\ LiveIdle
Next ==
    \/ CalcNext \/ RetrNext \/ ChunkNext \/ SummNext \/ IngNext
    \/ SessNext \/ ThreadsNext
Spec == Init /\ [][Next]_vars

\* the calculator on its own
InitCalc == CalcInit /\ RetrIdle /\ TextIdle /\ IngIdle /\ LiveIdle
SpecCalc == InitCalc /\ [][CalcNext]_vars

\* the retriever on its own
InitRetr == RetrInit /\ CalcIdle /\ TextIdle /\ IngIdle /\ LiveIdle
SpecRetr == InitRetr /\ [][RetrNext]_vars

\* the text splitter on its own
InitChunk == CalcIdle /\ RetrIdle /\ TextIdle /\ IngIdle /\ LiveIdle
SpecChunk == InitChunk /\ [][ChunkNext]_vars

\* the summarizer on its own
InitSumm == CalcIdle /\ RetrIdle /\ TextIdle /\ IngIdle /\ LiveIdle
SpecSumm == InitSumm /\ [][SummNext]_vars

\* ingestion and start-up on their own
InitIngest == IngInit /\ CalcIdle /\ RetrIdle /\ TextIdle /\ LiveIdle
SpecIngest == InitIngest /\ [][IngNext]_vars

\* the interactive session on its own
InitSession ==
    /\ session = NoSession
    /\ threads = NoThreads
    /\ CalcIdle /\ RetrIdle /\ TextIdle /\ IngIdle
SpecSession == InitSession /\ [][SessNext]_vars

\* concurrent callers of one retriever on their own
InitThreads ==
    /\ ThreadsInit
    /\ session = NoSession
    /\ CalcIdle /\ TextIdle /\ IngIdle
SpecThreads == InitThreads /\ [][ThreadsNext]_vars

(***************************************************************************)
(* Properties of the eligibility calculator (checked under SpecCalc)       *)
(***************************************************************************)

Called == calc.result.kind # "none"

PurchaseValid == Strptime(calc.purchase).ok

\* a reference date was passed and it is a calendar date
ReferenceValid == Truthy(calc.current) /\ Strptime(calc.current.text).ok

\* a non-empty reference date was passed and it is not a calendar date
ReferenceMalformed == Truthy(calc.current) /\ ~Strptime(calc.current.text).ok

PurchaseDay == Strptime(calc.purchase).ord

ReferenceDay == Strptime(calc.current.text).ord

\* the authoritative category table, every accepted spelling listed
TableWindow(c) ==
    CASE c \in {general} -> 30
      [] c \in {electronics, C_Electronics} -> 15
      [] c \in {clothing, C_CLOTHING} -> 60
      [] c \in {food, C_Food} -> 7
      [] c \in {perishables, C_PERISHABLES} -> 7
      [] OTHER -> 30

\* C1: for every valid purchase date, category and explicitly given
\* reference date the calculator reports a verdict that is ELIGIBLE exactly
\* when reference_date <= purchase_date + window_days.
C1_EligibleIffByDeadline ==
    (Called /\ PurchaseValid /\ ReferenceValid) =>
        /\ calc.result.kind = "verdict"
        /\ calc.result.eligible <=>
              (ReferenceDay <= PurchaseDay + TableWindow(calc.category))

Recognized(c) ==
    c \in {general, electronics, C_Electronics, clothing, C_CLOTHING,
           food, C_Food, perishables, C_PERISHABLES}

\* C2: the window used is 30/15/60/7/7 for general/electronics/clothing/
\* food/perishables in any letter case and 30 for every other category, and
\* an unrecognized category is no error: the call ends as the same call
\* with category "general" ends.
C2_WindowByCategory ==
    Called =>
        /\ calc.result.kind = "verdict" =>
              calc.result.window = TableWindow(calc.category)
        /\ ~Recognized(calc.category) =>
              calc.result.kind =
                  Run(calc.purchase, general, calc.current, calc.at).kind

C2_Witness ==
    /\ calc.category = C_unknown_category
    /\ calc.result.kind = "verdict"
    /\ calc.result.window = 30

\* C3: every verdict reports a non-negative figure: Days Remaining when
\* eligible, Days Overdue = days_since_purchase - window when not eligible,
\* also when the reference date is taken from the clock.
C3_FigureNonNegative ==
    calc.result.kind = "verdict" =>
        /\ calc.result.figure >= 0
        /\ ~calc.result.eligible =>
              calc.result.figure = calc.result.daysSince - calc.result.window
        /\ (calc.result.eligible /\ ReferenceValid) =>
              calc.result.figure =
                  PurchaseDay + calc.result.window - ReferenceDay

\* a verdict from the clock, later in the day of the deadline: zero days overdue
C3_Witness ==
    /\ calc.result.kind = "verdict"
    /\ ~Truthy(calc.current)
    /\ ~calc.result.eligible
    /\ calc.result.figure = 0
    /\ calc.at % TicksPerDay # 0

\* C4: a call without a reference date yields the verdict of the call that
\* passes today's calendar date, at every moment of the day.
C4_OmittedIsToday ==
    (Called /\ ~Truthy(calc.current)) =>
        calc.result =
            Run(calc.purchase, calc.category, Given(TodayText(calc.at)), calc.at)

\* C5: a malformed purchase or reference date yields the invalid-date error,
\* no verdict, and the error tells which of the two fields was malformed: the
\* error for a text passed as purchase date differs from the error for the
\* same text passed as reference date of an otherwise valid call.
C5_ErrorNamesField ==
    (Called /\ (~PurchaseValid \/ ReferenceMalformed)) =>
        /\ calc.result.kind = "InvalidDate"
        /\ ~PurchaseValid =>
              calc.result #
                  Run(D_2024_01_01, calc.category, Given(calc.purchase), calc.at)

\* C6: a malformed date is the only error case: a valid purchase date with a
\* valid or omitted reference date and any category yields a verdict.
C6_OnlyMalformedDateFails ==
    (Called /\ PurchaseValid /\ ~ReferenceMalformed) =>
        calc.result.kind = "verdict"

IsC7Call ==
    /\ calc.purchase = D_2024_01_01
    /\ calc.category = clothing
    /\ calc.current = Given(D_2024_03_01)

\* C7 as stated: evaluate("2024-01-01", "clothing", "2024-03-01") is not
\* eligible, window 60, days since purchase 60, overdue 0.
C7_Original ==
    IsC7Call =>
        /\ calc.result.kind = "verdict"
        /\ ~calc.result.eligible
        /\ calc.result.window = 60
        /\ calc.result.daysSince = 60
        /\ calc.result.figure = 0

\* C7 amended: evaluate("2024-01-01", "clothing", "2024-03-01") is eligible,
\* window 60, days since purchase 60, days remaining 0, deadline 2024-03-01.
C7_BoundaryEligible ==
    IsC7Call =>
        /\ calc.result.kind = "verdict"
        /\ calc.result.eligible
        /\ calc.result.window = 60
        /\ calc.result.daysSince = 60
        /\ calc.result.figure = 0
        /\ calc.result.deadline = D_2024_03_01

C7_Witness == IsC7Call /\ calc.result.kind = "verdict"

(***************************************************************************)
(* Properties of the retriever (checked under SpecRetr)                    *)
(***************************************************************************)

\* the k a call asks for: its own k, or the configured top_k
RequestedK == IF call.k.given THEN call.k.val ELSE topK

\* C8: retrieve(query, k) returns at most k results (none at all for a k that
\* admits none), and an empty sequence, without raising, on an empty
\* collection.
C8_AtMostK ==
    call.op = "retrieve" =>
        /\ ~call.raised
        /\ Len(call.rows) <= (IF RequestedK >= 0 THEN RequestedK ELSE 0)
        /\ collection = <<>> => call.rows = <<>>

\* the collection holds more records than were asked for
C8_Witness ==
    /\ call.op = "retrieve"
    /\ call.k.given /\ call.k.val = 2
    /\ Len(collection) = 3
    /\ Len(call.rows) = 2

\* C9: a store failure during retrieve or retrieve_with_scores is not
\* propagated: the call returns an empty result and the search tool answers
\* that nothing relevant was found.
C9_StoreFailureRecovered ==
    (call.op \in {"retrieve", "retrieve_with_scores", "rag_search"} /\ ~call.up) =>
        /\ ~call.raised
        /\ call.rows = <<>>
        /\ call.op = "rag_search" =>
              call.text.kind = "No relevant policy documents found"

C9_Witness ==
    /\ call.op = "retrieve_with_scores"
    /\ ~call.up
    /\ collection # <<>>
    /\ call.rows = <<>>

\* C10: a call of retrieve or retrieve_with_scores with k <= 0 is rejected
\* and not executed as a store query with that k.
C10_NonPositiveKRejected ==
    (call.op \in {"retrieve", "retrieve_with_scores"} /\ call.k.given /\ call.k.val <= 0) =>
        call.storeK = <<>>


(***************************************************************************)
(* Properties of the text splitter (checked under SpecChunk)                *)
(***************************************************************************)

NChunks == Len(split.chunks)

\* number of characters of the document that chunk i and chunk i+1 both cover
SharedChars(i) ==
    LET n == split.chunks[i].to - split.chunks[i + 1].from + 1
    IN  IF n > 0 THEN n ELSE 0

ChunksFit ==
    \A i \in 1..NChunks :
        /\ Len(split.chunks[i].txt) >= 1
        /\ Len(split.chunks[i].txt) <= split.chunk_size

\* every chunk is the part of the document it covers, possibly stripped
ChunksAreSubstrings ==
    \A i \in 1..NChunks :
        LET c   == split.chunks[i]
            raw == SubSeq(split.text, c.from, c.to)
        IN  c.txt \in {raw, Strip(raw)}

Lines == SplitLines(summary.policy_text)
Entries ==
    LET body == SubSeq(summary.result, Len(SummaryHeader(summary.focus_area)) + 1,
                       Len(summary.result))
    IN  IF body = <<>> THEN <<>> ELSE SplitLines(body)

\* entry is the bullet made from line, with or without an added full stop
Derived(entry, line) ==
    entry \in {Point(Strip(line)), Point(Append(Strip(line), "."))}

RECURSIVE InOrder(_, _)
InOrder(entries, lines) ==
    IF entries = <<>> THEN TRUE
    ELSE IF lines = <<>> THEN FALSE
    ELSE IF Derived(Head(entries), Head(lines))
         THEN InOrder(Tail(entries), Tail(lines))
         ELSE InOrder(entries, Tail(lines))

\* C18: for every text and focus area the summarizer returns at most 10
\* entries, in the relative order of their lines in the input.
C18_AtMostTenInOrder ==
    summary.called => (Len(Entries) <= 10 /\ InOrder(Entries, Lines))

\* more than ten lines qualify, of two different kinds
C18_Witness ==
    /\ summary.called
    /\ Len(Lines) > 10
    /\ Len(Entries) = 10
    /\ Entries[1] # Entries[2]
    /\ \A i \in 1..Len(Lines) : \E j \in 1..Len(Entries) : Derived(Entries[j], Lines[i])

HasKeyword(line, keywords) == ContainsAny(Lower(Strip(line)), keywords)

Retained(line) == \E j \in 1..Len(Entries) : Derived(Entries[j], line)

SpecificFocus == Lower(summary.focus_area) \in {F_timeframes, F_requirements, F_process}

OwnKeywords ==
    LET f == Lower(summary.focus_area)
    IN  IF f = F_timeframes THEN timeframe_keywords
        ELSE IF f = F_requirements THEN requirement_keywords
        ELSE process_keywords

AllKeywords ==
    timeframe_keywords \o requirement_keywords \o process_keywords \o condition_keywords

\* C19: a line of at least 20 characters is tested against the area's own
\* keywords under a specific focus, and against the timeframes, requirements,
\* process and conditions keywords together under general or unrecognized
\* focus; so a line with only a process keyword is retained under general focus.
C19_GeneralTestsProcessKeywords ==
    (summary.called /\ Len(Lines) <= 10) =>
        \A i \in 1..Len(Lines) :
            (Len(Strip(Lines[i])) >= 20
             /\ HasKeyword(Lines[i], IF SpecificFocus THEN OwnKeywords ELSE AllKeywords))
                => Retained(Lines[i])

NoLineMatches ==
    \A i \in 1..Len(Lines) : ~HasKeyword(Lines[i], PriorityKeywords(summary.focus_area))

LongRaw(line) == Len(line) > 30
LongTrimmed(line) == Len(Strip(line)) > 30

\* C20 as stated: when no line matches, the entries are the first five lines
\* of the input longer than 30 characters, unchanged.
C20_Original ==
    (summary.called /\ NoLineMatches) =>
        LET long == FirstN(SelectSeq(Lines, LongRaw), 5)
        IN  Entries = [i \in 1..Len(long) |-> Point(long[i])]

\* C20 amended: when no line matches, the entries are the first five lines
\* that are longer than 30 characters once surrounding whitespace is removed,
\* each without that whitespace and otherwise unchanged; all of them when
\* there are fewer than five.
C20_FallbackFirstFiveTrimmed ==
    (summary.called /\ NoLineMatches) =>
        LET long == FirstN(SelectSeq(Lines, LongTrimmed), 5)
        IN  Entries = [i \in 1..Len(long) |-> Point(Strip(long[i]))]

\* the fallback cuts off after five lines and passes over a line of exactly
\* 30 characters
C20_Witness ==
    /\ summary.called
    /\ NoLineMatches
    /\ Len(Entries) = 5
    /\ Len(SelectSeq(Lines, LongTrimmed)) > 5
    /\ \E i \in 1..Len(Lines) : Len(Strip(Lines[i])) = 30

(***************************************************************************)
(* Properties of ingestion and start-up (checked under SpecIngest)         *)
(***************************************************************************)

Ran == run.outcome # "none"

\* the positions of the files of the data directory that can be loaded
Loadable ==
    {i \in 1..Len(dataDir.files) :
        /\ dataDir.exists
        /\ dataDir.files[i].is_file
        /\ Lower(dataDir.files[i].suffix) \in supported_extensions
        /\ dataDir.files[i].readable}

\* the positions in the collection of the records the last run wrote
RunRecords ==
    {i \in 1..Len(persisted.records) : persisted.records[i].run = run.n}

\* C11: whenever a retriever is open on the persisted collection, every
\* record of the collection was embedded with the retriever's model (a
\* start-up that detects a mismatch leaves no retriever open).
C11_RetrieverModelMatches ==
    proc.up =>
        \A i \in 1..Len(persisted.records) :
            persisted.records[i].model = proc.retriever_model

\* C12: a run on a directory without loadable documents raises 'no documents
\* found' and leaves the store as it found it; a run on a directory with a
\* loadable document raises nothing and leaves at least one record (the
\* configuration being accepted and the embedding service working).
C12_NoDocumentsOrRecords ==
    (Ran /\ run.outcome \notin {"config_error", "embedding_error"}) =>
        /\ Loadable = {} => (run.outcome = "no_documents" /\ persisted = run.before)
        /\ Loadable # {} => (run.outcome = "ok" /\ Len(persisted.records) >= 1)

\* C13: a run loads exactly the loadable files, in directory order, whatever
\* files fail to load; and when the run succeeds all chunks of every loaded
\* file are in the collection.
C13_UnreadableSkipped ==
    (Ran /\ run.outcome # "config_error") =>
        /\ Len(run.loaded) = Cardinality(Loadable)
        /\ \A k \in 1..Len(run.loaded) : run.loaded[k] \in Loadable
        /\ \A k \in 1..(Len(run.loaded) - 1) : run.loaded[k] < run.loaded[k + 1]
        /\ run.outcome = "ok" =>
              \A f \in Loadable :
                  Cardinality({i \in RunRecords : persisted.records[i].file = f})
                      = Len(ChunkDocument(dataDir.files[f].content,
                                          env.chunk_size, env.chunk_overlap))

\* a file that fails to load comes before a file whose chunks are written
C13_Witness ==
    /\ run.outcome = "ok"
    /\ \E i, j \in 1..Len(dataDir.files) :
          /\ i < j
          /\ i \in Candidates(dataDir) \ Loadable
          /\ j \in Loadable
          /\ \E r \in RunRecords : persisted.records[r].file = j

\* C14: a run in which the embedding service fails leaves none of its
\* records in the store, and a run that succeeds leaves all its chunks.
C14_AllOrNothing ==
    /\ run.outcome = "embedding_error" => RunRecords = {}
    /\ run.outcome = "ok" => Cardinality(RunRecords) = run.chunks

IsPrefix(s, t) == Len(s) <= Len(t) /\ SubSeq(t, 1, Len(s)) = s

\* C15: every ingestion run, failed or not, keeps the records the collection
\* held when it began, unchanged and in place, and only adds records after
\* them.
C15_AppendOnly ==
    [][(run'.n = run.n + 1 /\ run'.before = persisted)
          => IsPrefix(persisted.records, persisted'.records)]_vars

\* a second run has added records after those of the first
C15_Witness ==
    /\ run.n = 2
    /\ run.before.records # <<>>
    /\ IsPrefix(run.before.records, persisted.records)
    /\ Len(persisted.records) > Len(run.before.records)
    /\ persisted.records[1].run = 1

\* C17: a run configured with chunk_overlap >= chunk_size fails with a
\* configuration error when the chunker is constructed, so no run chunks
\* documents with an overlap that is not strictly smaller than the chunk size.
C17_OverlapStrictlySmaller ==
    /\ (Ran /\ env.chunk_overlap >= env.chunk_size) => run.outcome = "config_error"
    /\ run.chunks > 0 => env.chunk_overlap < env.chunk_size

\* some line that is long enough contains a keyword of the focus area
SomeLineMatches ==
    \E i \in 1..Len(Lines) :
        /\ Len(Strip(Lines[i])) >= 20
        /\ HasKeyword(Lines[i], PriorityKeywords(summary.focus_area))

Terminal == {".", "!", "?"}

ToolExpectedK ==
    IF call.omitted THEN 3
    ELSE IF call.passed.given THEN call.passed.val ELSE topK

\* C29: the search tool passes its own num_results (3 when none is given) as
\* k: the store is queried with that number whatever top_k is, with top_k
\* only when num_results is None, and the answer has at most that many
\* blocks, numbered 1..n in the order of the store's rows.
C29_ToolAsksItsOwnK ==
    call.op = "rag_search" =>
        /\ call.storeK = <<ToolExpectedK>>
        /\ Len(call.text.blocks) <= (IF ToolExpectedK >= 0 THEN ToolExpectedK ELSE 0)
        /\ Len(call.text.blocks) = Len(call.rows)
        /\ \A i \in 1..Len(call.text.blocks) :
              /\ call.text.blocks[i].number = i
              /\ call.text.blocks[i].row = call.rows[i]
        /\ \A i \in 1..(Len(call.rows) - 1) :
              call.rows[i].score <= call.rows[i + 1].score

\* the tool's default reaches the store although top_k is configured
\* differently, and the collection fills all three blocks
C29_Witness ==
    /\ call.op = "rag_search"
    /\ call.omitted
    /\ topK # 3
    /\ call.storeK = <<3>>
    /\ Len(call.text.blocks) = 3

(***************************************************************************)
(* Properties of a start of the program (checked under SpecIngest)         *)
(***************************************************************************)

\* the step is a start of the program, without or with --reingest
StartStep == proc = Down /\ proc' # Down
PlainStart == StartStep /\ ~proc'.reingest
ReingestStart == StartStep /\ proc'.reingest

\* the step is a start that got past load_config and, where it had to
\* ingest, found policy documents
ReachedIngestionDecision == proc'.exit \notin {"configuration", "no_policy_documents"}

\* the step ran ingest_policy_documents
RanIngestion == run'.n = run.n + 1

\* the retriever of the step's process was created on the collection as
\* the step leaves it
RetrieverSeesStore ==
    proc'.up => proc'.document_count = Len(persisted'.records)

\* C23: a start runs ingestion exactly when the vector-store directory does
\* not exist (unless it has ended before for lack of a configuration or of
\* documents): when it is absent the documents are ingested before the
\* retriever is created, when it is present nothing is ingested and the
\* stored records are left as they are.
C23_IngestsIffStoreAbsent ==
    [][PlainStart =>
          /\ RanIngestion => ~persisted.exists
          /\ (~persisted.exists /\ ReachedIngestionDecision) => RanIngestion
          /\ (~persisted.exists /\ proc'.up) =>
                /\ run'.outcome = "ok"
                /\ persisted'.exists
                /\ RetrieverSeesStore
          /\ persisted.exists => (run' = run /\ persisted' = persisted)
      ]_vars

\* a process serves the records that its own start ingested into a store
\* directory that did not exist
C23_Witness ==
    /\ proc.up
    /\ run.n = 1
    /\ run.outcome = "ok"
    /\ run.before = NoStore
    /\ run.chunks > 0
    /\ proc.document_count = run.chunks

\* the configuration would be refused by a check of chunk size and overlap
ChunkSettingsInvalid == env.chunk_overlap > env.chunk_size

\* C24: a start with a configuration error (API key, log level, chunk size
\* and overlap) ends before a directory is created or removed, a document
\* loaded, the store opened or a query served.
C24_ConfigErrorBeforeWork ==
    [][(StartStep /\ (ChunkSettingsInvalid \/ proc'.fault \in ConfigFaults)) =>
          /\ ~proc'.up
          /\ proc'.status = 1
          /\ dataDir' = dataDir
          /\ persisted' = persisted
          /\ run' = run
      ]_vars

\* C25: every fatal error of a start (configuration, no policy documents,
\* ingestion, retriever, crew) ends the process with status 1 and a reason,
\* and a process serves queries only when every step of its start succeeded.
C25_FatalErrorsExitOne ==
    [][StartStep =>
          /\ proc'.up \/ (proc'.status = 1 /\ proc'.exit # "none")
          /\ proc'.fault # "none" => ~proc'.up
          /\ (RanIngestion /\ run'.outcome # "ok") => ~proc'.up
          /\ (~RanIngestion /\ ~persisted'.exists) => ~proc'.up
          /\ proc'.up => (proc'.status = 0 /\ proc'.exit = "none")
      ]_vars

\* starts have ended for each of the reasons but one, which a third start
\* would show: here the crew could not be created after a successful ingest
C25_Witness ==
    /\ ~proc.up
    /\ proc.exit = "crew"
    /\ proc.status = 1
    /\ run.outcome = "ok"
    /\ persisted.records # <<>>

\* C26: a start that skips ingestion and serves queries finds the complete
\* chunks of a finished run; a start after an ingestion that failed part-way
\* does not serve an empty or partial collection.
C26_ServesCompleteStore ==
    [][(PlainStart /\ persisted.exists /\ proc'.up) =>
          /\ run.outcome = "ok"
          /\ Cardinality(RunRecords) = run.chunks
      ]_vars

\* C27: a start with --reingest removes the vector-store directory before
\* setup, so that it ingests (unless it ends before for lack of a
\* configuration or of documents) before the retriever is created; after a
\* successful start the collection holds exactly the chunks of that run.
C27_ReingestReplacesStore ==
    [][ReingestStart =>
          /\ ReachedIngestionDecision => (RanIngestion /\ run'.before = NoStore)
          /\ proc'.up =>
                /\ run'.outcome = "ok"
                /\ Len(persisted'.records) = run'.chunks
                /\ \A i \in 1..Len(persisted'.records) :
                      persisted'.records[i].run = run'.n
                /\ RetrieverSeesStore
      ]_vars

\* the second run has replaced the records of the first
C27_Witness ==
    /\ proc.up
    /\ run.n = 2
    /\ run.outcome = "ok"
    /\ run.before = NoStore
    /\ run.chunks > 0
    /\ \A i \in 1..Len(persisted.records) : persisted.records[i].run = 2

(***************************************************************************)
(* Properties of the interactive session (checked under SpecSession)       *)
(***************************************************************************)

\* the line of the last prompt as the loop compares it
LastQuery == Strip(session.last.text)

\* C28: a failing query does not end the session: process_query returns
\* None when the crew raises, input that is empty once trimmed is not sent
\* to the crew, and the loop goes on until 'quit', 'exit' or 'q' in any case
\* is entered or a KeyboardInterrupt or an end of input occurs.
C28_SessionSurvivesFailures ==
    session.prompts > 0 =>
        /\ session.last.crew = "raises" =>
              /\ session.last.raised = "none"
              /\ session.last.value = "None"
              /\ session.state = "prompting"
        /\ session.last.sent =>
              /\ session.last.kind = "line"
              /\ LastQuery # <<>>
              /\ Lower(LastQuery) \notin QuitWords
        /\ (session.last.kind = "line" /\ LastQuery = <<>>) =>
              (~session.last.sent /\ session.state = "prompting")
        /\ session.state = "ended" <=>
              \/ session.last.kind \in {"EOFError", "KeyboardInterrupt"}
              \/ session.last.kind = "line" /\ Lower(LastQuery) \in QuitWords
              \/ session.last.crew = "KeyboardInterrupt"

\* a query is answered after a query on which the crew raised
C28_Witness ==
    /\ session.state = "prompting"
    /\ session.failed >= 1
    /\ session.last.sent
    /\ session.last.crew = "response"
    /\ session.last.value = "response"

(***************************************************************************)
(* Properties of concurrent retrieval (checked under SpecThreads)          *)
(***************************************************************************)

\* what the call of thread t returns when nothing else runs
Alone(t) ==
    LET c == threads[t]
    IN  IF c.op = "retrieve"
        THEN retrieve(storeUp, collection, topK, c.query, c.k)
        ELSE retrieve_with_scores(storeUp, collection, topK, c.query, c.k)

ReturnsAsAlone ==
    \A t \in Threads :
        threads[t].pc = "done" =>
            IF threads[t].op = "get_collection_stats"
            THEN threads[t].stats = get_collection_stats(storeUp, collection)
            ELSE /\ threads[t].raised = Alone(t).raised
                 /\ threads[t].rows = Alone(t).rows

\* C22: calls of retrieve, retrieve_with_scores and get_collection_stats
\* that overlap leave the collection and the retriever (top_k, the store)
\* unchanged, and each returns what it returns when it runs alone.
C22_ConcurrentCallsAreIndependent ==
    /\ [][collection' = collection /\ topK' = topK /\ storeUp' = storeUp]_vars
    /\ []ReturnsAsAlone

\* two calls with different k overlap and both have their own result
C22_Witness ==
    /\ threads["t1"].pc = "done"
    /\ threads["t2"].pc = "done"
    /\ threads["t1"].op = "retrieve"
    /\ threads["t2"].op = "retrieve_with_scores"
    /\ ~threads["t1"].k.given
    /\ threads["t2"].k.given
    /\ Len(threads["t1"].rows) # Len(threads["t2"].rows)
    /\ threads["t2"].rows # <<>>

====
